---------------------------- MODULE Spec2Model ----------------------------
(***************************************************************************)
(* The Streamlit front end of the interview coach (app.py): main(), which  *)
(* gates the page on authentication, collects the question and the         *)
(* candidate response, calls process_interview_response and hands the      *)
(* returned record to display_results.                                     *)
(*                                                                         *)
(* Streamlit reruns main() from the top on every interaction, so every     *)
(* action below is one interaction followed by one complete run of main(). *)
(* Text is a sequence of one-character strings, so that str.strip() and    *)
(* truthiness of a string are computed, not assumed.  Everything main()    *)
(* and display_results() put on the page during a run is collected in      *)
(* the variable page.                                                      *)
(***************************************************************************)
EXTENDS Integers, Sequences, FiniteSets, TLC

VARIABLES
  authenticated,      \* session state read by check_auth_status()
  selected_question,  \* selectbox "Choose a sample question:" (1-based index)
  custom_question,    \* text_input "Or enter your own question:"
  sample_choice,      \* selectbox "Choose a sample response:"; 0 is "Custom Input"
  user_response,      \* text_area "Enter candidate response:"
  page                \* what the last run of main() called and rendered

vars == << authenticated, selected_question, custom_question, sample_choice,
           user_response, page >>

-----------------------------------------------------------------------------
(* Bounds of the model.                                                    *)

\* longest response a user types into the text area
MaxLen == 2
\* longest custom question a user types
MaxQLen == 1
\* longest keyword list the pipeline returns
MaxKeywords == 3

\* characters a user types into the response text area
ResponseAlphabet == {" ", "\n", "a"}
\* characters a user types into the custom question field
QuestionAlphabet == {" ", "q"}

RECURSIVE SeqsUpTo(_, _)
SeqsUpTo(S, n) ==
  IF n = 0 THEN {<< >>}
  ELSE LET shorter == SeqsUpTo(S, n - 1)
       IN  shorter \cup {Append(s, x) : s \in {t \in shorter : Len(t) = n - 1}, x \in S}

-----------------------------------------------------------------------------
(* Program constants of main().                                            *)

sample_questions ==
  << <<"T","e","l","l"," ","m","e"," ","a","b","o","u","t"," ","t","e","a","m","w","o","r","k">>,
     <<"D","e","s","c","r","i","b","e"," ","a"," ","c","h","a","l","l","e","n","g","i","n","g"," ","p","r","o","j","e","c","t"," ","y","o","u"," ","w","o","r","k","e","d"," ","o","n">>,
     <<"W","h","a","t"," ","a","r","e"," ","y","o","u","r"," ","t","e","c","h","n","i","c","a","l"," ","s","k","i","l","l","s","?">>,
     <<"H","o","w"," ","d","o"," ","y","o","u"," ","h","a","n","d","l","e"," ","c","o","n","f","l","i","c","t","s"," ","i","n"," ","a"," ","t","e","a","m","?">>,
     <<"T","e","l","l"," ","m","e"," ","a","b","o","u","t"," ","a"," ","t","i","m","e"," ","y","o","u"," ","f","a","i","l","e","d"," ","a","n","d"," ","l","e","a","r","n","e","d"," ","f","r","o","m"," ","i","t">> >>

sample_responses ==
  << <<"U","m","m"," ","I"," ","t","h","i","n","k"," ","I"," ","a","m"," ","g","o","o","d"," ","a","t"," ","t","e","a","m","w","o"," ","r","k",","," ","b","e","c","a","u","s","e"," ","i","n"," ","m","y"," ","l","a","s","t"," ","j","o","b"," ","I"," ","w","o","r","k","e","d"," ","w","i","t","h"," ","a"," ","t","e","a","m"," ","o","f"," ","5"," ","p","e","o","p","l","e"," ","t","o"," ","b","u","i","l","d"," ","a"," ","P","y","t","h","o","n"," ","a","p","p","l","i","c","a","t","i","o","n"," ","a","t"," ","G","o","o","g","l","e",".">>,
     <<"I","'","m"," ","r","e","a","l","l","y"," ","p","a","s","s","i","o","n","a","t","e"," ","a","b","o","u","t"," ","c","o","d","i","n","g"," ","a","n","d"," ","I"," ","l","o","v","e"," ","w","o","r","k","i","n","g"," ","w","i","t","h"," ","J","a","v","a","S","c","r","i","p","t"," ","a","n","d"," ","R","e","a","c","t","."," ","I","'","v","e"," ","b","u","i","l","t"," ","s","e","v","e","r","a","l"," ","w","e","b"," ","a","p","p","l","i","c","a","t","i","o","n","s"," ","a","n","d"," ","I","'","m"," ","a","l","w","a","y","s"," ","l","e","a","r","n","i","n","g"," ","n","e","w"," ","t","e","c","h","n","o","l","o","g","i","e","s",".">>,
     <<"W","e","l","l",","," ","I"," ","h","a","d"," ","t","h","i","s"," ","r","e","a","l","l","y"," ","d","i","f","f","i","c","u","l","t"," ","p","r","o","j","e","c","t"," ","w","h","e","r","e"," ","w","e"," ","h","a","d"," ","t","o"," ","o","p","t","i","m","i","z","e"," ","t","h","e"," ","d","a","t","a","b","a","s","e"," ","p","e","r","f","o","r","m","a","n","c","e","."," ","I","t"," ","w","a","s"," ","c","h","a","l","l","e","n","g","i","n","g"," ","b","u","t"," ","I"," ","l","e","a","r","n","e","d"," ","a"," ","l","o","t"," ","a","b","o","u","t"," ","S","Q","L"," ","a","n","d"," ","i","n","d","e","x","i","n","g",".">>,
     <<"I"," ","t","h","i","n","k"," ","c","o","m","m","u","n","i","c","a","t","i","o","n"," ","i","s"," ","k","e","y"," ","i","n"," ","a","n","y"," ","t","e","a","m","."," ","W","h","e","n"," ","t","h","e","r","e"," ","a","r","e"," ","d","i","s","a","g","r","e","e","m","e","n","t","s",","," ","I"," ","t","r","y"," ","t","o"," ","l","i","s","t","e","n"," ","t","o"," ","e","v","e","r","y","o","n","e","'","s"," ","p","e","r","s","p","e","c","t","i","v","e"," ","a","n","d"," ","f","i","n","d"," ","a"," ","m","i","d","d","l","e"," ","g","r","o","u","n","d"," ","t","h","a","t"," ","w","o","r","k","s"," ","f","o","r"," ","e","v","e","r","y","o","n","e",".">> >>

\* options of the "Choose a sample response:" selectbox: 0 is "Custom Input",
\* i is "Sample i"
SampleChoices == 0 .. Len(sample_responses)

\* value= of the text area that main() builds for a sample choice
default_response(choice) ==
  IF choice = 0 THEN << >> ELSE sample_responses[choice]

-----------------------------------------------------------------------------
(* Python string operations used by main().                                *)

\* the characters str.strip() removes
Whitespace == {" ", "\t", "\n", "\r", "\f"}

RECURSIVE lstrip(_)
lstrip(s) ==
  IF s = << >> THEN s
  ELSE IF Head(s) \in Whitespace THEN lstrip(Tail(s)) ELSE s

RECURSIVE rstrip(_)
rstrip(s) ==
  IF s = << >> THEN s
  ELSE IF s[Len(s)] \in Whitespace THEN rstrip(SubSeq(s, 1, Len(s) - 1)) ELSE s

\* a plausible slip: trims blanks only, so a response of newlines counts as text
strip_blanks_only(s) ==
  LET RECURSIVE cut(_)
      cut(t) == IF t = << >> THEN t
                ELSE IF Head(t) = " " THEN cut(Tail(t))
                ELSE IF t[Len(t)] = " " THEN cut(SubSeq(t, 1, Len(t) - 1))
                ELSE t
  IN  cut(s)

strip(s) == rstrip(lstrip(s))

\* a plausible slip: the sample question wins even when a custom one is typed
system_question_sample_first(custom, selected) == sample_questions[selected]

\* system_question = custom_question if custom_question else selected_question
system_question_of(custom, selected) ==
  IF custom # << >> THEN custom ELSE sample_questions[selected]

-----------------------------------------------------------------------------
(* The analysis pipeline, ai_modules.nlp_processor.  Its stages are        *)
(* statistical models; what they compute for one call is drawn from        *)
(* StageOutputs, and the record is assembled from it as documented.        *)

Criteria == {"relevance", "clarity", "tone"}

\* the rubric dict in each insertion order of its three keys
RubricOrders ==
  {o \in [1 .. 3 -> Criteria] : \A c \in Criteria : \E i \in 1 .. 3 : o[i] = c}

Rubrics ==
  {[i \in 1 .. 3 |-> << o[i], b[o[i]] >>] : o \in RubricOrders, b \in [Criteria -> BOOLEAN]}

\* d[key] of a dict kept as a sequence of << key, value >> in insertion order
DictGet(d, key, default) ==
  IF \E i \in DOMAIN d : d[i][1] = key
  THEN d[CHOOSE i \in DOMAIN d : d[i][1] = key][2]
  ELSE default

\* d[key] = value: an existing key keeps its place, a new key goes last
DictPut(d, key, value) ==
  IF \E i \in DOMAIN d : d[i][1] = key
  THEN [i \in DOMAIN d |-> IF d[i][1] = key THEN << key, value >> ELSE d[i]]
  ELSE Append(d, << key, value >>)

KeywordVocabulary == {"team", "python"}
KeywordLists == SeqsUpTo(KeywordVocabulary, MaxKeywords)

\* label and confidence (in hundredths) of the sentiment classifier
Sentiments == { << "POSITIVE", 98 >>, << "NEUTRAL", 55 >>, << "NEGATIVE", 91 >> }

EntityLists == { << >>, << << "Google", "ORG" >> >> }

\* the text artefacts of the normalisation chain
TextStages ==
  { [ preprocessing_steps |-> [ lowercase |-> "umm team", no_fillers |-> "team",
                                 no_punctuation |-> "team" ],
      tokenized_words |-> << "team" >>,
      lemmatized_words |-> << "team" >>,
      cleaned_response |-> << "team" >> ] }

StageOutputs ==
  { [ text |-> t, keywords |-> k, named_entities |-> e, sentiment |-> s, rubric |-> r ] :
      t \in TextStages, k \in KeywordLists, e \in EntityLists, s \in Sentiments,
      r \in Rubrics }

B2I(b) == IF b THEN 1 ELSE 0

\* a plausible slip: tone is left out of the sum
overall_score_without_tone(rubric) ==
  B2I(DictGet(rubric, "relevance", FALSE)) + B2I(DictGet(rubric, "clarity", FALSE))

\* overall_score = sum of the three booleans
overall_score_of(rubric) ==
  B2I(DictGet(rubric, "relevance", FALSE)) + B2I(DictGet(rubric, "clarity", FALSE))
    + B2I(DictGet(rubric, "tone", FALSE))

\* the Result Assembler: the record display_results reads
AnalysisResult(response, out) ==
  [ original_response |-> response,
    preprocessing_steps |-> out.text.preprocessing_steps,
    tokenized_words |-> out.text.tokenized_words,
    lemmatized_words |-> out.text.lemmatized_words,
    cleaned_response |-> out.text.cleaned_response,
    keywords |-> out.keywords,
    named_entities |-> out.named_entities,
    sentiment_label |-> out.sentiment[1],
    sentiment_score |-> out.sentiment[2],
    rubric |-> out.rubric,
    overall_score |-> overall_score_of(out.rubric) ]

\* the error value: a dict with an "error" entry
ErrorValue(kind) == [ error |-> kind ]

\* what happens inside one call: no fault, a stage failure reported as an error
\* value, or a stage failure that propagates as an exception
Faults == {"none", "reported", "raised"}

CallEnv(outputs) ==
  [ fault : {"none"}, stages : outputs ]
    \cup [ fault : {"reported", "raised"}, stages : {CHOOSE o \in outputs : TRUE} ]

\* process_interview_response(response_text, question_text) -> AnalysisResult | error
process_interview_response(response, question, env) ==
  IF strip(response) = << >> THEN ErrorValue("InputError")
  ELSE IF env.fault = "reported" THEN ErrorValue("ProcessingError")
  ELSE AnalysisResult(response, env.stages)

-----------------------------------------------------------------------------
(* display_results(result, system_question)                                *)

\* number of columns of the rubric row, st.columns(3)
RubricColumns == 3

\* str.title() of a criterion name
title(criterion) ==
  CASE criterion = "relevance" -> "Relevance"
    [] criterion = "clarity" -> "Clarity"
    [] criterion = "tone" -> "Tone"
    [] OTHER -> criterion

\* "🟢" if POSITIVE else "🟡" if NEUTRAL else "🔴"
sentiment_color(label) ==
  IF label = "POSITIVE" THEN "green"
  ELSE IF label = "NEUTRAL" THEN "yellow" ELSE "red"

\* rubric_colors: the card style of each criterion, read by key
rubric_colors(rubric) ==
  [ c \in Criteria |-> IF DictGet(rubric, c, FALSE) THEN "success" ELSE "danger" ]

\* a plausible slip: the style is looked up by position instead of by key
rubric_cards_by_position(rubric) ==
  LET canonical == << "relevance", "clarity", "tone" >>
  IN  [ i \in DOMAIN rubric |->
          [ column |-> i - 1,
            criterion |-> title(rubric[i][1]),
            status |-> IF rubric[i][2] THEN "Pass" ELSE "Fail",
            color_class |-> rubric_colors(rubric)[canonical[i]] ] ]

\* for i, (criterion, score) in enumerate(result['rubric'].items()):
\*     with rubric_cols[i]: one card
rubric_cards(rubric) ==
  [ i \in DOMAIN rubric |->
      [ column |-> i - 1,
        criterion |-> title(rubric[i][1]),
        status |-> IF rubric[i][2] THEN "Pass" ELSE "Fail",
        color_class |-> rubric_colors(rubric)[rubric[i][1]] ] ]

\* a plausible slip: keyword_counts[keyword] = 1 instead of get(keyword, 0) + 1
keyword_counts_presence(keywords) ==
  LET RECURSIVE loop(_, _)
      loop(rest, counts) ==
        IF rest = << >> THEN counts
        ELSE loop(Tail(rest), DictPut(counts, Head(rest), 1))
  IN  loop(keywords, << >>)

\* keyword_counts = {}
\* for keyword in result['keywords']:
\*     keyword_counts[keyword] = keyword_counts.get(keyword, 0) + 1
keyword_counts(keywords) ==
  LET RECURSIVE loop(_, _)
      loop(rest, counts) ==
        IF rest = << >> THEN counts
        ELSE loop(Tail(rest),
                  DictPut(counts, Head(rest), DictGet(counts, Head(rest), 0) + 1))
  IN  loop(keywords, << >>)

\* the key order of the record, which json.dumps keeps
ResultFields ==
  << "original_response", "preprocessing_steps", "tokenized_words", "lemmatized_words",
     "cleaned_response", "keywords", "named_entities", "sentiment_label",
     "sentiment_score", "rubric", "overall_score" >>

JsonScalar(v) == [ json |-> "scalar", value |-> v ]
JsonBool(b) == [ json |-> "literal", value |-> IF b THEN "true" ELSE "false" ]
JsonArray(items) == [ json |-> "array", value |-> items ]
JsonObject(members) == [ json |-> "object", value |-> members ]

\* json.dumps(result, indent=2): objects keep key order, lists and tuples both
\* become arrays, booleans become true / false
json_dumps(result) ==
  LET strings(l) == JsonArray([ i \in DOMAIN l |-> JsonScalar(l[i]) ])
      steps == result.preprocessing_steps
      member(f) ==
        CASE f = "original_response" -> JsonScalar(result.original_response)
          [] f = "preprocessing_steps" ->
               JsonObject(<< << "lowercase", JsonScalar(steps.lowercase) >>,
                             << "no_fillers", JsonScalar(steps.no_fillers) >>,
                             << "no_punctuation", JsonScalar(steps.no_punctuation) >> >>)
          [] f = "tokenized_words" -> strings(result.tokenized_words)
          [] f = "lemmatized_words" -> strings(result.lemmatized_words)
          [] f = "cleaned_response" -> strings(result.cleaned_response)
          [] f = "keywords" -> strings(result.keywords)
          [] f = "named_entities" ->
               JsonArray([ i \in DOMAIN result.named_entities |->
                             strings(result.named_entities[i]) ])
          [] f = "sentiment_label" -> JsonScalar(result.sentiment_label)
          [] f = "sentiment_score" -> JsonScalar(result.sentiment_score)
          [] f = "rubric" ->
               JsonObject([ i \in DOMAIN result.rubric |->
                              << result.rubric[i][1], JsonBool(result.rubric[i][2]) >> ])
          [] f = "overall_score" -> JsonScalar(result.overall_score)
  IN  [ i \in DOMAIN ResultFields |-> << ResultFields[i], member(ResultFields[i]) >> ]

\* what display_results puts on the page, section by section
render(result) ==
  [ overall_metric |-> << result.overall_score, "/3" >>,
    sentiment_metric |->
      [ value |-> << sentiment_color(result.sentiment_label), result.sentiment_label >>,
        delta |-> result.sentiment_score ],
    keywords_metric |-> Len(result.keywords),
    entities_metric |-> Len(result.named_entities),
    cards |-> rubric_cards(result.rubric),
    text_tab |->
      << result.original_response, result.preprocessing_steps.lowercase,
         result.preprocessing_steps.no_fillers, result.preprocessing_steps.no_punctuation,
         result.tokenized_words, result.lemmatized_words, result.cleaned_response >>,
    keyword_bullets |->
      IF result.keywords # << >> THEN result.keywords ELSE << "No keywords found" >>,
    entity_bullets |->
      IF result.named_entities # << >> THEN result.named_entities
      ELSE << "No named entities found" >>,
    sentiment_table |-> << result.sentiment_label, result.sentiment_score >>,
    rubric_chart |-> result.rubric,
    keyword_tables |->
      IF result.keywords # << >> THEN << keyword_counts(result.keywords) >> ELSE << >>,
    raw_json |-> result,
    download |-> json_dumps(result) ]

\* a plausible slip: the keyword list is de-duplicated in place for the chart
display_results_dedup_in_place(result, question) ==
  LET counts == keyword_counts(result.keywords)
      changed == [ result EXCEPT !.keywords = [ i \in DOMAIN counts |-> counts[i][1] ] ]
  IN  [ view |-> render(changed), result |-> changed ]

\* display_results: the page sections, and the record as it is left afterwards;
\* no statement of the function assigns to result or to anything it holds
display_results(result, question) ==
  [ view |-> render(result), result |-> result ]

-----------------------------------------------------------------------------
(* main()                                                                  *)

InputMessage == << "Please enter a response to analyze." >>

\* the page of a run before anything is put on it
BlankPage ==
  [ is_authenticated |-> FALSE,  \* what check_auth_status() returned
    clicked |-> FALSE,           \* the run was started by a press of Analyze
    auth_page |-> FALSE,         \* show_auth_page() was called
    widgets |-> FALSE,           \* the input widgets were rendered
    handled |-> FALSE,           \* st.button(...) returned True
    calls |-> << >>,             \* arguments of each process_interview_response call
    returned |-> << >>,          \* what each call returned
    errors |-> << >>,            \* st.error messages
    exceptions |-> << >>,        \* st.exception tracebacks
    displays |-> << >> ]         \* each display_results call: record passed, view,
                                 \* record afterwards

\* a plausible slip: the error value is dropped without a message
show_outcome_silent(result, question) ==
  IF "error" \in DOMAIN result
  THEN [ errors |-> << >>, displays |-> << >> ]
  ELSE [ errors |-> << >>,
         displays |-> << [ passed |-> result ] @@ display_results(result, question) >> ]

\* if "error" in result: st.error(result["error"])
\* else: display_results(result, system_question)
show_outcome(result, question) ==
  IF "error" \in DOMAIN result
  THEN [ errors |-> << << result.error >> >>, displays |-> << >> ]
  ELSE [ errors |-> << >>,
         displays |-> << [ passed |-> result ] @@ display_results(result, question) >> ]

\* the body of main() below the authentication gate
app_page(w, clicked, env) ==
  LET system_question == system_question_of(w.custom_question, w.selected_question)
      shown == [ BlankPage EXCEPT !.is_authenticated = TRUE, !.clicked = clicked,
                                  !.widgets = TRUE, !.handled = clicked ]
      args == [ response |-> w.user_response, question |-> system_question ]
  IN  IF ~clicked THEN shown
      ELSE IF strip(w.user_response) = << >>
      THEN [ shown EXCEPT !.errors = << InputMessage >> ]
      ELSE IF env.fault = "raised"
      THEN \* except Exception as e: st.error(...); st.exception(e)
           [ shown EXCEPT !.calls = << args >>,
                          !.errors = << << "Error processing response: ", "StageFailure" >> >>,
                          !.exceptions = << "StageFailure" >> ]
      ELSE LET result == process_interview_response(args.response, args.question, env)
               outcome == show_outcome(result, system_question)
           IN  [ shown EXCEPT !.calls = << args >>,
                              !.returned = << result >>,
                              !.errors = outcome.errors,
                              !.displays = outcome.displays ]

\* a plausible slip: the return after show_auth_page() is missing
main_without_return(is_authenticated, w, clicked, env) ==
  IF ~is_authenticated
  THEN [ app_page(w, clicked, env) EXCEPT !.is_authenticated = FALSE, !.auth_page = TRUE ]
  ELSE app_page(w, clicked, env)

\* one run of main()
main(is_authenticated, w, clicked, env) ==
  IF ~is_authenticated
  THEN [ BlankPage EXCEPT !.clicked = clicked, !.auth_page = TRUE ]
  ELSE app_page(w, clicked, env)

-----------------------------------------------------------------------------
(* The session: widget state between runs, and one action per interaction. *)

\* widget values of a freshly rendered page
DefaultWidgets ==
  [ selected_question |-> 1, custom_question |-> << >>, sample_choice |-> 0,
    user_response |-> default_response(0) ]

Widgets ==
  [ selected_question |-> selected_question, custom_question |-> custom_question,
    sample_choice |-> sample_choice, user_response |-> user_response ]

\* the outputs drawn while the user varies every widget: every rubric in its
\* documented key order, with no keywords, no entities and a positive sentiment
BriefOutputs ==
  { o \in StageOutputs :
      /\ o.keywords = << >>
      /\ o.named_entities = << >>
      /\ o.sentiment[1] = "POSITIVE"
      /\ o.rubric[1][1] = "relevance"
      /\ o.rubric[2][1] = "clarity" }

NoEnv == CHOOSE e \in CallEnv(BriefOutputs) : e.fault = "none"

\* one run of main() with widget values w; a run that renders no input widget
\* leaves none of their values behind
Rerun(is_authenticated, w, clicked, env) ==
  /\ authenticated' = is_authenticated
  /\ page' = main(is_authenticated, w, clicked, env)
  /\ LET kept == IF page'.widgets THEN w ELSE DefaultWidgets
     IN  /\ selected_question' = kept.selected_question
         /\ custom_question' = kept.custom_question
         /\ sample_choice' = kept.sample_choice
         /\ user_response' = kept.user_response

Init ==
  /\ authenticated = FALSE
  /\ selected_question = DefaultWidgets.selected_question
  /\ custom_question = DefaultWidgets.custom_question
  /\ sample_choice = DefaultWidgets.sample_choice
  /\ user_response = DefaultWidgets.user_response
  /\ page = main(FALSE, DefaultWidgets, FALSE, NoEnv)

Login ==
  /\ ~authenticated
  /\ Rerun(TRUE, DefaultWidgets, FALSE, NoEnv)

Logout ==
  /\ authenticated
  /\ Rerun(FALSE, Widgets, FALSE, NoEnv)

SelectQuestion ==
  /\ authenticated
  /\ \E i \in DOMAIN sample_questions :
       /\ i # selected_question
       /\ Rerun(TRUE, [ Widgets EXCEPT !.selected_question = i ], FALSE, NoEnv)

EnterCustomQuestion ==
  /\ authenticated
  /\ \E s \in SeqsUpTo(QuestionAlphabet, MaxQLen) :
       /\ s # custom_question
       /\ Rerun(TRUE, [ Widgets EXCEPT !.custom_question = s ], FALSE, NoEnv)

\* a new choice builds a text area with a new default, which replaces its content
SelectSampleChoice ==
  /\ authenticated
  /\ \E c \in SampleChoices :
       /\ c # sample_choice
       /\ Rerun(TRUE, [ Widgets EXCEPT !.sample_choice = c,
                                        !.user_response = default_response(c) ],
                FALSE, NoEnv)

EditResponse ==
  /\ authenticated
  /\ \E s \in SeqsUpTo(ResponseAlphabet, MaxLen) :
       /\ s # user_response
       /\ Rerun(TRUE, [ Widgets EXCEPT !.user_response = s ], FALSE, NoEnv)

\* a press of "Analyze Response" on the rendered page
ClickAnalyze ==
  /\ authenticated
  /\ \E env \in CallEnv(BriefOutputs) : Rerun(TRUE, Widgets, TRUE, env)

\* the same press when the session has ended in the meantime
ClickAnalyzeSignedOut ==
  /\ authenticated
  /\ Rerun(FALSE, Widgets, TRUE, NoEnv)

\* the first press on a freshly rendered page, the pipeline returning any record
\* it can; main() keeps nothing of the run before, so a press on a page that
\* already shows an outcome leads to no page that this press does not lead to
ClickAnalyzeAny ==
  /\ authenticated
  /\ ~page.handled
  /\ \E env \in CallEnv(StageOutputs) : Rerun(TRUE, Widgets, TRUE, env)

Next ==
  \/ Login
  \/ Logout
  \/ SelectQuestion
  \/ EnterCustomQuestion
  \/ SelectSampleChoice
  \/ EditResponse
  \/ ClickAnalyze
  \/ ClickAnalyzeSignedOut

Spec == Init /\ [][Next]_vars

\* the sample responses analysed with every record the pipeline can return
NextDisplay ==
  \/ Login
  \/ SelectSampleChoice
  \/ ClickAnalyzeAny

SpecDisplay == Init /\ [][NextDisplay]_vars

-----------------------------------------------------------------------------
(* Properties.                                                             *)

\* s holds a character that is not whitespace
HasText(s) == \E j \in DOMAIN s : s[j] \notin Whitespace

\* the records the pipeline returned in the last run (error values left out)
ReturnedRecords ==
  { page.returned[i] : i \in { k \in DOMAIN page.returned :
                                 "error" \notin DOMAIN page.returned[k] } }

Displays == { page.displays[i] : i \in DOMAIN page.displays }

\* C1: a press of Analyze on an empty or whitespace-only response shows the input
\* error and nothing else: the pipeline is not called, nothing is returned or
\* rendered; so every response the pipeline is called with holds a character that
\* is not whitespace.
C1_BlankResponseIsRejected ==
  /\ \A i \in DOMAIN page.calls : HasText(page.calls[i].response)
  /\ (page.handled /\ ~HasText(user_response)) =>
       /\ page.calls = << >>
       /\ page.returned = << >>
       /\ page.displays = << >>
       /\ page.exceptions = << >>
       /\ page.errors = << InputMessage >>

\* C1 witness: Analyze was pressed on a response made of whitespace only
C1_Witness ==
  /\ page.handled
  /\ user_response # << >>
  /\ ~HasText(user_response)
  /\ page.errors = << InputMessage >>

\* C2: for every outcome the pipeline returns, the page shows exactly one of two
\* things: for an error value its message, display_results not being called; for a
\* record one display_results call on that record and no error message.
C2_ErrorOrDisplay ==
  /\ Len(page.returned) <= 1
  /\ \A i \in DOMAIN page.returned :
       LET r == page.returned[i]
       IN  IF "error" \in DOMAIN r
           THEN /\ page.errors = << << r.error >> >>
                /\ page.displays = << >>
           ELSE /\ Len(page.displays) = 1
                /\ page.displays[1].passed = r
                /\ page.errors = << >>

\* C2 witness: the pipeline returned an error value and its message is on the page
C2_Witness ==
  /\ Len(page.returned) = 1
  /\ "error" \in DOMAIN page.returned[1]
  /\ page.errors = << << page.returned[1].error >> >>

\* C3: in every record returned for a valid input, overall_score is the number of
\* true values among relevance, clarity and tone, hence one of 0, 1, 2, 3; the
\* score on the page is the number of cards that show Pass.
C3_ScoreCountsPassedCriteria ==
  /\ \A r \in ReturnedRecords :
       /\ r.overall_score = Cardinality({ i \in DOMAIN r.rubric : r.rubric[i][2] })
       /\ r.overall_score \in 0 .. 3
  /\ \A d \in Displays :
       d.view.overall_metric[1] =
         Cardinality({ i \in DOMAIN d.view.cards : d.view.cards[i].status = "Pass" })

\* C3 witness: a record with tone passed and relevance failed was returned and shown
C3_Witness ==
  \E d \in Displays :
    /\ DictGet(d.passed.rubric, "tone", FALSE)
    /\ DictGet(d.passed.rubric, "clarity", FALSE)
    /\ ~DictGet(d.passed.rubric, "relevance", TRUE)
    /\ d.passed.overall_score = 2

\* C4: a failure inside a pipeline stage never reaches the page as a raw exception:
\* every call main() makes returns a record or an error value, and no exception
\* is displayed.
C4_NoRawException ==
  /\ Len(page.returned) = Len(page.calls)
  /\ page.exceptions = << >>

\* C5: a run in which check_auth_status() is false shows the authentication page
\* only: no input widget, no handling of an Analyze press, no pipeline call and no
\* result; and a pipeline call carries a response and a question, nothing else.
C5_AuthenticationGate ==
  /\ ~page.is_authenticated =>
       /\ page.auth_page
       /\ ~page.widgets
       /\ ~page.handled
       /\ page.calls = << >>
       /\ page.returned = << >>
       /\ page.errors = << >>
       /\ page.displays = << >>
  /\ page.is_authenticated => ~page.auth_page
  /\ \A i \in DOMAIN page.calls : DOMAIN page.calls[i] = {"response", "question"}

\* C5 witness: Analyze was pressed in a run that found the user signed out
C5_Witness ==
  /\ ~page.is_authenticated
  /\ page.clicked
  /\ page.auth_page

\* C7: display_results leaves the record as it was: after rendering, the record is
\* the one the pipeline returned, and the JSON offered for download encodes it.
C7_DisplayKeepsRecord ==
  \A i \in DOMAIN page.displays :
    LET d == page.displays[i]
    IN  /\ d.passed = page.returned[i]
        /\ d.result = page.returned[i]
        /\ d.view.raw_json = page.returned[i]
        /\ d.view.download = json_dumps(page.returned[i])

\* C7 witness: a record with a repeated keyword and a failed criterion was rendered
C7_Witness ==
  \E d \in Displays :
    /\ \E i, j \in DOMAIN d.passed.keywords :
         i # j /\ d.passed.keywords[i] = d.passed.keywords[j]
    /\ \E i \in DOMAIN d.passed.rubric : ~d.passed.rubric[i][2]
    /\ d.result = d.passed

Occurrences(l, x) == Cardinality({ n \in DOMAIN l : l[n] = x })

FirstIndex(l, x) == CHOOSE n \in DOMAIN l : l[n] = x /\ \A m \in 1 .. n - 1 : l[m] # x

RECURSIVE SumCounts(_)
SumCounts(t) == IF t = << >> THEN 0 ELSE Head(t)[2] + SumCounts(Tail(t))

\* C8: the frequency table has one entry per distinct keyword, in order of first
\* occurrence, each count is the number of occurrences of that keyword, the counts
\* add up to the length of the list; no table is built for an empty list.
C8_KeywordFrequencies ==
  \A d \in Displays :
    LET kws == d.passed.keywords
        tables == d.view.keyword_tables
    IN  IF kws = << >> THEN tables = << >>
        ELSE /\ Len(tables) = 1
             /\ LET t == tables[1]
                IN  /\ { t[i][1] : i \in DOMAIN t } = { kws[n] : n \in DOMAIN kws }
                    /\ \A i, j \in DOMAIN t : t[i][1] = t[j][1] => i = j
                    /\ \A i, j \in DOMAIN t :
                         i < j => FirstIndex(kws, t[i][1]) < FirstIndex(kws, t[j][1])
                    /\ \A i \in DOMAIN t : t[i][2] = Occurrences(kws, t[i][1])
                    /\ SumCounts(t) = Len(kws)

\* C8 witness: the list team, python, team was tabulated as team 2, python 1
C8_Witness ==
  \E d \in Displays :
    /\ d.passed.keywords = << "team", "python", "team" >>
    /\ d.view.keyword_tables = << << << "team", 2 >>, << "python", 1 >> >> >>

\* C9: display_results renders three rubric cards, one per criterion, each in a
\* column of its own among columns 0..2, and a card shows Pass with the success
\* style exactly when its criterion is true, Fail with the danger style otherwise.
C9_RubricCards ==
  \A d \in Displays :
    LET cards == d.view.cards
    IN  /\ Len(cards) = 3
        /\ \A i \in DOMAIN cards : cards[i].column \in 0 .. RubricColumns - 1
        /\ \A i, j \in DOMAIN cards : cards[i].column = cards[j].column => i = j
        /\ \A c \in Criteria :
             /\ Cardinality({ i \in DOMAIN cards : cards[i].criterion = title(c) }) = 1
             /\ \A i \in DOMAIN cards :
                  cards[i].criterion = title(c) =>
                    IF DictGet(d.passed.rubric, c, FALSE)
                    THEN cards[i].status = "Pass" /\ cards[i].color_class = "success"
                    ELSE cards[i].status = "Fail" /\ cards[i].color_class = "danger"

\* C9 witness: a rubric listing tone first, with tone failed and the others passed
C9_Witness ==
  \E d \in Displays :
    /\ d.passed.rubric =
         << << "tone", FALSE >>, << "relevance", TRUE >>, << "clarity", TRUE >> >>
    /\ d.view.cards[1].status = "Fail"
    /\ d.view.cards[2].status = "Pass"

\* C10: the question passed to the pipeline is the custom question when that is a
\* non-empty string and the selected sample question otherwise, and it is never
\* the empty string.
C10_QuestionPassed ==
  \A i \in DOMAIN page.calls :
    /\ custom_question # << >> => page.calls[i].question = custom_question
    /\ custom_question = << >> =>
         page.calls[i].question = sample_questions[selected_question]
    /\ Len(page.calls[i].question) > 0

\* C10 witness: a custom question was typed and passed to the pipeline
C10_Witness ==
  /\ page.calls # << >>
  /\ custom_question # << >>
  /\ page.calls[1].question = custom_question
=============================================================================
